---- MODULE Spec2Model ----
(***************************************************************************)
(* clean_notebooks.py: walk the working directory, collect every file     *)
(* whose name ends with ".ipynb", and for each one load the JSON           *)
(* document, clear outputs / execution_count / metadata.execution of its   *)
(* code cells, write it back and report.                                   *)
(*                                                                         *)
(* Python values are modelled as tagged records:                           *)
(*   None   [t |-> "null"]                                                 *)
(*   int    [t |-> "int", v |-> n]                                         *)
(*   str    [t |-> "str", v |-> <<characters>>]                            *)
(*   list   [t |-> "arr", v |-> <<values>>]                                *)
(*   dict   [t |-> "obj", v |-> << <<key, value>>, ... >>]  (insertion     *)
(*          order, keys unique; a key is a sequence of characters)         *)
(***************************************************************************)
EXTENDS Integers, Sequences, FiniteSets, TLC

\* ------------------------------------------------------------------------
\* Bounds of the model
\* ------------------------------------------------------------------------
MaxCells == 2
MaxNotebooks == 3

\* ------------------------------------------------------------------------
\* String literals of the program and of the documents, as character
\* sequences
\* ------------------------------------------------------------------------
s_cells == <<"c","e","l","l","s">>
s_cell_type == <<"c","e","l","l","_","t","y","p","e">>
s_code == <<"c","o","d","e">>
s_outputs == <<"o","u","t","p","u","t","s">>
s_execution_count == <<"e","x","e","c","u","t","i","o","n","_","c","o","u","n","t">>
s_metadata == <<"m","e","t","a","d","a","t","a">>
s_execution == <<"e","x","e","c","u","t","i","o","n">>
s_ipynb == <<".","i","p","y","n","b">>
s_markdown == <<"m","a","r","k","d","o","w","n">>
s_raw == <<"r","a","w">>
s_source == <<"s","o","u","r","c","e">>
s_text == <<"t","e","x","t">>
s_hi == <<"h","i">>
s_png == <<"p","n","g">>
s_tags == <<"t","a","g","s">>
s_status == <<"i","o","p","u","b",".","s","t","a","t","u","s">>
s_busy == <<"b","u","s","y">>
s_nbformat == <<"n","b","f","o","r","m","a","t">>
s_kernelspec == <<"k","e","r","n","e","l","s","p","e","c">>
s_python3 == <<"p","y","t","h","o","n","3">>
s_x == <<"x">>

\* ------------------------------------------------------------------------
\* Python values
\* ------------------------------------------------------------------------
None == [t |-> "null"]
PyInt(n) == [t |-> "int", v |-> n]
Str(s) == [t |-> "str", v |-> s]
Arr(s) == [t |-> "arr", v |-> s]
Obj(kv) == [t |-> "obj", v |-> kv]
EmptyList == Arr(<<>>)
EmptyDict == Obj(<<>>)

\* a == b on two Python values
PyEq(a, b) == a.t = b.t /\ a = b

\* key in d, d[key], d[key] = x on a dict d
HasKey(d, key) == \E n \in DOMAIN d.v : d.v[n][1] = key
Get(d, key) == d.v[CHOOSE n \in DOMAIN d.v : d.v[n][1] = key][2]
Put(d, key, x) ==
    IF HasKey(d, key)
    THEN Obj([n \in DOMAIN d.v |-> IF d.v[n][1] = key THEN <<key, x>> ELSE d.v[n]])
    ELSE Obj(Append(d.v, <<key, x>>))
Keys(d) == {d.v[n][1] : n \in DOMAIN d.v}

\* sub in s on two strings
IsSubstring(sub, s) ==
    \E a \in 0..Len(s) : a + Len(sub) <= Len(s) /\ SubSeq(s, a + 1, a + Len(sub)) = sub

\* s.endswith(suffix)
EndsWith(s, suffix) ==
    /\ Len(s) >= Len(suffix)
    /\ SubSeq(s, Len(s) - Len(suffix) + 1, Len(s)) = suffix

\* The outcome of evaluating a piece of code: exc is "none" or the name of
\* the exception raised, val the value computed (or the object as the
\* exception left it).
Ok(x) == [exc |-> "none", val |-> x]
Raise(e, x) == [exc |-> e, val |-> x]

\* x[key] with a string key
Subscript(x, key) ==
    IF x.t = "obj"
    THEN IF HasKey(x, key) THEN Ok(Get(x, key)) ELSE Raise("KeyError", x)
    ELSE Raise("TypeError", x)

\* iter(x): the items a for loop over x visits
Iterate(x) ==
    CASE x.t = "arr" -> Ok(x.v)
      [] x.t = "obj" -> Ok([n \in DOMAIN x.v |-> Str(x.v[n][1])])
      [] x.t = "str" -> Ok([n \in DOMAIN x.v |-> Str(<<x.v[n]>>)])
      [] OTHER -> Raise("TypeError", x)

\* s in x with a string s
Contains(x, s) ==
    CASE x.t = "obj" -> Ok(HasKey(x, s))
      [] x.t = "arr" -> Ok(\E n \in DOMAIN x.v : PyEq(x.v[n], Str(s)))
      [] x.t = "str" -> Ok(IsSubstring(s, x.v))
      [] OTHER -> Raise("TypeError", x)

\* ------------------------------------------------------------------------
\* clean_notebook, the body of the loop over the cells (lines 14-23)
\* ------------------------------------------------------------------------

\* cell['cell_type'] == 'code' (the cell is a dict that has the key)
IsCode_NotMarkdown(cell) == ~PyEq(Get(cell, s_cell_type), Str(s_markdown))
IsCode(cell) == PyEq(Get(cell, s_cell_type), Str(s_code))

\* if 'outputs' in cell: cell['outputs'] = []
SetOutputs_DropFirst(cell) ==
    IF HasKey(cell, s_outputs) /\ Get(cell, s_outputs).t = "arr"
       /\ Get(cell, s_outputs).v # <<>>
    THEN Put(cell, s_outputs, Arr(Tail(Get(cell, s_outputs).v)))
    ELSE cell
SetOutputs_NoTest(cell) == Put(cell, s_outputs, EmptyList)
SetOutputs(cell) ==
    IF HasKey(cell, s_outputs) THEN Put(cell, s_outputs, EmptyList) ELSE cell

\* if 'execution_count' in cell: cell['execution_count'] = None
SetExecutionCount_Zero(cell) ==
    IF HasKey(cell, s_execution_count) THEN Put(cell, s_execution_count, PyInt(0)) ELSE cell
SetExecutionCount(cell) ==
    IF HasKey(cell, s_execution_count) THEN Put(cell, s_execution_count, None) ELSE cell

\* if 'metadata' in cell:
\*     if 'execution' in cell['metadata']: cell['metadata']['execution'] = {}
SetMetadataExecution_ClearAll(cell) ==
    IF ~HasKey(cell, s_metadata) THEN Ok(cell)
    ELSE LET has == Contains(Get(cell, s_metadata), s_execution) IN
         IF has.exc # "none" THEN Raise(has.exc, cell)
         ELSE IF ~has.val THEN Ok(cell)
         ELSE Ok(Put(cell, s_metadata, Obj(<< <<s_execution, EmptyDict>> >>)))
SetMetadataExecution(cell) ==
    IF ~HasKey(cell, s_metadata) THEN Ok(cell)
    ELSE LET metadata == Get(cell, s_metadata)
             has == Contains(metadata, s_execution) IN
         IF has.exc # "none" THEN Raise(has.exc, cell)
         ELSE IF ~has.val THEN Ok(cell)
         ELSE IF metadata.t = "obj"
              THEN Ok(Put(cell, s_metadata, Put(metadata, s_execution, EmptyDict)))
              ELSE Raise("TypeError", cell)

\* One iteration of the loop: the cell as the iteration leaves it, and the
\* exception it raised, if any.
CleanCell(cell) ==
    LET ty == Subscript(cell, s_cell_type) IN
    IF ty.exc # "none" THEN Raise(ty.exc, cell)
    ELSE IF ~IsCode(cell) THEN Ok(cell)
    ELSE \* the three statements in turn, each on the cell the previous one left
         CHOOSE r \in {SetMetadataExecution(c2) :
                          c2 \in {SetExecutionCount(c1) : c1 \in {SetOutputs(cell)}}} : TRUE

\* The whole loop, lines 13-23, on a document: the document as the loop
\* leaves it, and the exception that ended it, if any.
RECURSIVE CleanFrom(_, _)
CleanFrom(doc, n) ==
    LET items == Iterate(Get(doc, s_cells)).val IN
    IF n > Len(items) THEN Ok(doc)
    ELSE LET cells == Get(doc, s_cells)
             r == CleanCell(items[n])
             next == IF cells.t = "arr"
                     THEN Put(doc, s_cells, Arr([cells.v EXCEPT ![n] = r.val]))
                     ELSE doc IN
         IF r.exc = "none" THEN CleanFrom(next, n + 1) ELSE Raise(r.exc, next)
CleanDocument(doc) ==
    LET c == Subscript(doc, s_cells)
        r == IF c.exc = "none" THEN Iterate(c.val) ELSE c IN
    IF r.exc = "none" THEN CleanFrom(doc, 1) ELSE Raise(r.exc, doc)

\* ------------------------------------------------------------------------
\* Files.  A file's content is JSON text (the document it parses to, and
\* whether its layout is the one json.dump(indent=2, ensure_ascii=False)
\* produces or any other), text that is not JSON, or the part of a text
\* that reached the disk before a write failed.
\* ------------------------------------------------------------------------
JsonText(layout, doc) == [kind |-> "json", layout |-> layout, doc |-> doc]
NotJson == [kind |-> "garbage"]
PartialText == [kind |-> "partial"]

\* json.load(f)
JsonLoad_Lenient(content) ==
    IF content.kind = "json" THEN Ok(content.doc)
    ELSE Ok(Obj(<< <<s_cells, EmptyList>> >>))
JsonLoad(content) ==
    IF content.kind = "json" THEN Ok(content.doc) ELSE Raise("JSONDecodeError", None)

\* json.dump(notebook, f, indent=2, ensure_ascii=False)
JsonDump(doc) == JsonText("indent2", doc)

\* file.endswith('.ipynb')
IsNotebookName_NoDot(file) == EndsWith(file, Tail(s_ipynb))
IsNotebookName(file) == EndsWith(file, s_ipynb)

\* os.walk('.') is top-down: the files of a directory are reported before
\* those of its subdirectories; the order within a directory is the
\* platform's.
WalkDirs == <<".", "./sub">>
DirIndex(root) == CHOOSE n \in DOMAIN WalkDirs : WalkDirs[n] = root
Discovered(fs) == {p \in DOMAIN fs : IsNotebookName(p.file)}
WalkOrders(fs) ==
    LET D == Discovered(fs) IN
    {s \in [1..Cardinality(D) -> D] :
        /\ \A a, b \in DOMAIN s : a # b => s[a] # s[b]
        /\ \A a, b \in DOMAIN s : a < b => DirIndex(s[a].root) <= DirIndex(s[b].root)}

\* ------------------------------------------------------------------------
\* The documents and directory trees the model runs on
\* ------------------------------------------------------------------------
OutputHi == Obj(<< <<s_text, Str(s_hi)>> >>)
OutputPng == Obj(<< <<s_png, Str(s_x)>> >>)
ExecutionBusy == Obj(<< <<s_status, Str(s_busy)>> >>)
Tags == Arr(<<Str(s_x)>>)
SourceField == <<s_source, Str(s_x)>>

Fields(present, pair) == IF present THEN <<pair>> ELSE <<>>

\* cells of every combination of type and optional fields
GridCells ==
    {Obj(<< <<s_cell_type, Str(ty)>>, SourceField >>
         \o Fields(o, <<s_outputs, Arr(<<OutputHi, OutputPng>>)>>)
         \o Fields(e, <<s_execution_count, PyInt(3)>>)
         \o Fields(m, <<s_metadata,
                        Obj(<< <<s_tags, Tags>>, <<s_execution, ExecutionBusy>> >>)>>)) :
        ty \in {s_code, s_markdown}, o \in BOOLEAN, e \in BOOLEAN, m \in BOOLEAN}

CodeCell(fields) == Obj(<< <<s_cell_type, Str(s_code)>>, SourceField >> \o fields)

ScenarioACell ==
    CodeCell(<< <<s_outputs, Arr(<<OutputHi>>)>>, <<s_execution_count, PyInt(3)>>,
                <<s_metadata, Obj(<< <<s_execution, ExecutionBusy>> >>)>> >>)
CleanedCell ==
    CodeCell(<< <<s_outputs, EmptyList>>, <<s_execution_count, None>>,
                <<s_metadata, Obj(<< <<s_execution, EmptyDict>> >>)>> >>)
TagsOnlyCell ==
    CodeCell(<< <<s_outputs, Arr(<<OutputHi>>)>>,
                <<s_metadata, Obj(<< <<s_tags, Tags>> >>)>> >>)
RawCell ==
    Obj(<< <<s_cell_type, Str(s_raw)>>, SourceField,
           <<s_outputs, Arr(<<OutputHi>>)>>, <<s_execution_count, PyInt(3)>>,
           <<s_metadata, Obj(<< <<s_execution, ExecutionBusy>> >>)>> >>)
\* cells that do not have the shape of a cell
NoTypeCell == Obj(<< SourceField, <<s_outputs, Arr(<<OutputHi>>)>> >>)
NullMetadataCell ==
    CodeCell(<< <<s_outputs, Arr(<<OutputHi>>)>>, <<s_execution_count, PyInt(3)>>,
                <<s_metadata, None>> >>)
ListMetadataCell ==
    CodeCell(<< <<s_outputs, Arr(<<OutputHi>>)>>,
                <<s_metadata, Arr(<<Str(s_execution)>>)>> >>)
StrMetadataCell ==
    CodeCell(<< <<s_metadata, Str(s_x \o s_execution_count)>> >>)
StrCell == Str(s_code)

CellUniverse ==
    GridCells \cup {ScenarioACell, CleanedCell, TagsOnlyCell, RawCell, NoTypeCell,
                    NullMetadataCell, ListMetadataCell, StrMetadataCell, StrCell}

DocFields ==
    << <<s_metadata, Obj(<< <<s_kernelspec, Str(s_python3)>>,
                            <<s_execution, ExecutionBusy>> >>)>>,
       <<s_nbformat, PyInt(4)>> >>
Notebook(cells) == Obj(<< <<s_cells, cells>> >> \o DocFields)

CellSeqs == UNION {[1..n -> CellUniverse] : n \in 0..MaxCells}

Documents ==
    {Notebook(Arr(cs)) : cs \in CellSeqs}
    \cup {Notebook(None), Notebook(EmptyDict), Notebook(Obj(<< <<s_x, None>> >>)),
          Notebook(Str(s_x)), Obj(DocFields), Arr(<<ScenarioACell>>), None}

ScenarioADoc == Notebook(Arr(<<ScenarioACell>>))
MarkdownDoc ==
    Notebook(Arr(<<Obj(<< <<s_cell_type, Str(s_markdown)>>, SourceField >>)>>))
HalfShapedDoc == Notebook(Arr(<<ScenarioACell, NoTypeCell>>))

\* what can go wrong with a path besides its content: open(.., 'r') fails,
\* open(.., 'w') fails, or the write fails after the file was truncated
Faults == {"none", "read", "open_w", "write"}
Case(content, f) == [content |-> content, fault |-> f]

\* a tree of several notebooks: each parses or not, has the shape of a
\* notebook or not, and can be written or not
RunCases ==
    {Case(NotJson, "none"), Case(JsonText("other", ScenarioADoc), "none"),
     Case(JsonText("indent2", MarkdownDoc), "none"),
     Case(JsonText("other", HalfShapedDoc), "none"),
     Case(JsonText("other", ScenarioADoc), "write"),
     Case(JsonText("other", ScenarioADoc), "read")}
\* a tree of one notebook: every document, and every fault
DocCases ==
    {Case(JsonText("other", d), "none") : d \in Documents}
    \cup {Case(JsonText("other", ScenarioADoc), f) : f \in Faults}
    \cup {Case(c, f) : c \in {NotJson, PartialText, JsonText("indent2", ScenarioADoc)},
                       f \in {"none", "read"}}

Stem(n) == [j \in 1..n |-> "n"]
NotebookPath(n) ==
    [root |-> WalkDirs[IF n % 2 = 1 THEN 1 ELSE 2], file |-> Stem(n) \o s_ipynb]
\* files whose names do not end with '.ipynb'
BackupPath == [root |-> WalkDirs[1], file |-> Stem(1) \o s_ipynb \o <<".","b","a","k">>]
NoDotPath == [root |-> WalkDirs[2], file |-> Stem(1) \o Tail(s_ipynb)]
OtherFiles == {BackupPath, NoDotPath}

Tree(cases) ==
    [p \in {NotebookPath(n) : n \in DOMAIN cases} \cup OtherFiles |->
        IF p \in OtherFiles THEN Case(JsonText("other", ScenarioADoc), "none")
        ELSE cases[CHOOSE n \in DOMAIN cases : NotebookPath(n) = p]]

Trees ==
    {Tree(cases) : cases \in (UNION {[1..n -> RunCases] : n \in 0..MaxNotebooks})
                             \cup [1..1 -> DocCases]}

\* ------------------------------------------------------------------------
\* State
\* ------------------------------------------------------------------------
VARIABLES
    files,          \* path -> content of the file
    fault,          \* path -> what can go wrong with it (fixed for the run)
    pc,             \* position of the program
    notebook_files, \* main: the list of discovered paths
    k,              \* main: position of the loop over notebook_files
    success_count,  \* main
    out,            \* the lines printed so far
    notebook,       \* clean_notebook: the document in memory
    ci,             \* clean_notebook: position of the loop over the cells
    exc,            \* clean_notebook: the exception being handled
    files0,         \* history: the files as the run found them
    loaded,         \* history: the document as json.load returned it
    calls,          \* history: the arguments of the calls of clean_notebook
    rets            \* history: the values the calls returned

vars == <<files, fault, pc, notebook_files, k, success_count, out, notebook, ci,
          exc, files0, loaded, calls, rets>>

Unbound == [t |-> "unbound"]

Init ==
    /\ \E tree \in Trees :
          /\ files = [p \in DOMAIN tree |-> tree[p].content]
          /\ fault = [p \in DOMAIN tree |-> tree[p].fault]
    /\ files0 = files
    /\ pc = "main"
    /\ notebook_files = <<>>
    /\ k = 0
    /\ success_count = 0
    /\ out = <<>>
    /\ notebook = Unbound
    /\ loaded = Unbound
    /\ ci = 0
    /\ exc = "none"
    /\ calls = <<>>
    /\ rets = <<>>

\* ------------------------------------------------------------------------
\* The lines the program prints
\* ------------------------------------------------------------------------
FoundLine(n) == [line |-> "Found", n |-> n]
ItemLine(p) == [line |-> "  - ", path |-> p]
CleaningLine == [line |-> "Cleaning notebooks..."]
CleanedLine(p) == [line |-> "Cleaned", path |-> p]
ErrorLine(p, e) == [line |-> "Error processing", path |-> p, e |-> e]
CompletedLine(successes, total) ==
    [line |-> "Completed", successes |-> successes, total |-> total]

\* ------------------------------------------------------------------------
\* main and clean_notebook
\* ------------------------------------------------------------------------

\* the argument of the call of clean_notebook in progress
notebook_path == notebook_files[k]

\* except Exception as e: where control goes when the try block raises e
OnRaise_LoadErrorsOnly(e) ==
    IF e \in {"OSError", "JSONDecodeError"} THEN "except" ELSE "abort"
OnRaise(e) == "except"

\* the items of the loop over notebook['cells']
CellItems == Iterate(Subscript(notebook, s_cells).val).val

\* the for loop has visited every item
LoopDone_InsideLoop(i, items) == i > Len(items) \/ i > 1
LoopDone(i, items) == i > Len(items)

\* if clean_notebook(notebook_file): success_count += 1
Tally_Always(ret, count) == count + 1
Tally(ret, count) == IF ret THEN count + 1 ELSE count

\* main, lines 38-51: walk the tree, print what was found
Discover ==
    /\ pc = "main"
    /\ \E order \in WalkOrders(files) : notebook_files' = order
    /\ out' = <<FoundLine(Len(notebook_files'))>>
              \o [n \in DOMAIN notebook_files' |-> ItemLine(notebook_files'[n])]
              \o <<CleaningLine>>
    /\ success_count' = 0
    /\ k' = 1
    /\ pc' = "for_files"
    /\ UNCHANGED <<files, fault, notebook, ci, exc, files0, loaded, calls, rets>>

\* main, lines 52-53: the next path is passed to clean_notebook
Call ==
    /\ pc = "for_files"
    /\ k <= Len(notebook_files)
    /\ calls' = Append(calls, notebook_files[k])
    /\ notebook' = Unbound
    /\ loaded' = Unbound
    /\ ci' = 0
    /\ exc' = "none"
    /\ pc' = "load"
    /\ UNCHANGED <<files, fault, notebook_files, k, success_count, out, files0, rets>>

\* clean_notebook, lines 9-10: open for reading and json.load
Load ==
    /\ pc = "load"
    /\ LET r == IF fault[notebook_path] = "read"
                THEN Raise("OSError", None)
                ELSE JsonLoad(files[notebook_path]) IN
       IF r.exc = "none"
       THEN /\ notebook' = r.val
            /\ loaded' = r.val
            /\ pc' = "cells"
            /\ exc' = exc
       ELSE /\ exc' = r.exc
            /\ pc' = OnRaise(r.exc)
            /\ UNCHANGED <<notebook, loaded>>
    /\ UNCHANGED <<files, fault, notebook_files, k, success_count, out, ci, files0,
                   calls, rets>>

\* clean_notebook, line 13: notebook['cells'] and the start of the loop
BeginCells ==
    /\ pc = "cells"
    /\ LET c == Subscript(notebook, s_cells)
           r == IF c.exc = "none" THEN Iterate(c.val) ELSE c IN
       IF r.exc = "none"
       THEN /\ ci' = 1
            /\ pc' = "for_cells"
            /\ exc' = exc
       ELSE /\ exc' = r.exc
            /\ pc' = OnRaise(r.exc)
            /\ ci' = ci
    /\ UNCHANGED <<files, fault, notebook_files, k, success_count, out, notebook,
                   files0, loaded, calls, rets>>

\* clean_notebook, lines 13-23: one iteration; the cell is changed in place
CleanCellStep ==
    /\ pc = "for_cells"
    /\ ci <= Len(CellItems)
    /\ \E cells \in {Get(notebook, s_cells)}, r \in {CleanCell(CellItems[ci])} :
       /\ notebook' = IF cells.t = "arr"
                      THEN Put(notebook, s_cells, Arr([cells.v EXCEPT ![ci] = r.val]))
                      ELSE notebook
       /\ IF r.exc = "none"
          THEN /\ ci' = ci + 1
               /\ UNCHANGED <<pc, exc>>
          ELSE /\ exc' = r.exc
               /\ pc' = OnRaise(r.exc)
               /\ ci' = ci
    /\ UNCHANGED <<files, fault, notebook_files, k, success_count, out, files0,
                   loaded, calls, rets>>

\* clean_notebook, lines 26-27: open for writing (which truncates) and
\* json.dump
Persist ==
    /\ pc = "for_cells"
    /\ LoopDone(ci, CellItems)
    /\ IF fault[notebook_path] = "open_w"
       THEN /\ exc' = "OSError"
            /\ pc' = OnRaise("OSError")
            /\ files' = files
       ELSE IF fault[notebook_path] = "write"
       THEN /\ exc' = "OSError"
            /\ pc' = OnRaise("OSError")
            /\ files' = [files EXCEPT ![notebook_path] = PartialText]
       ELSE /\ files' = [files EXCEPT ![notebook_path] = JsonDump(notebook)]
            /\ pc' = "cleaned"
            /\ exc' = exc
    /\ UNCHANGED <<fault, notebook_files, k, success_count, out, notebook, ci,
                   files0, loaded, calls, rets>>

\* clean_notebook, lines 29-30, and main, lines 53-54
ReturnTrue ==
    /\ pc = "cleaned"
    /\ out' = Append(out, CleanedLine(notebook_path))
    /\ rets' = Append(rets, TRUE)
    /\ success_count' = Tally(TRUE, success_count)
    /\ k' = k + 1
    /\ pc' = "for_files"
    /\ UNCHANGED <<files, fault, notebook_files, notebook, ci, exc, files0, loaded,
                   calls>>

\* clean_notebook, lines 31-33, and main, line 53
ReturnFalse ==
    /\ pc = "except"
    /\ out' = Append(out, ErrorLine(notebook_path, exc))
    /\ rets' = Append(rets, FALSE)
    /\ success_count' = Tally(FALSE, success_count)
    /\ k' = k + 1
    /\ pc' = "for_files"
    /\ UNCHANGED <<files, fault, notebook_files, notebook, ci, exc, files0, loaded,
                   calls>>

\* main, line 56: the loop is over, the summary is printed
Finish ==
    /\ pc = "for_files"
    /\ k > Len(notebook_files)
    /\ out' = Append(out, CompletedLine(success_count, Len(notebook_files)))
    /\ pc' = "done"
    /\ UNCHANGED <<files, fault, notebook_files, k, success_count, notebook, ci, exc,
                   files0, loaded, calls, rets>>

Next ==
    \/ Discover
    \/ Call
    \/ Load
    \/ BeginCells
    \/ CleanCellStep
    \/ Persist
    \/ ReturnTrue
    \/ ReturnFalse
    \/ Finish

Spec == Init /\ [][Next]_vars

\* The program is one thread that runs to its end: a step that can be
\* taken is taken.
FairSpec == Spec /\ WF_vars(Next)

\* ------------------------------------------------------------------------
\* Vocabulary of the properties
\* ------------------------------------------------------------------------

\* the positions inside a call of clean_notebook
InCall == pc \in {"load", "cells", "for_cells", "cleaned", "except"}

\* the calls of clean_notebook that have returned
Returned == DOMAIN rets

\* the data model: a notebook is a record with a list of cells, a cell a
\* record with a cell_type and, if it has metadata, a mapping as metadata
IsCell(c) ==
    /\ c.t = "obj"
    /\ HasKey(c, s_cell_type)
    /\ HasKey(c, s_metadata) => Get(c, s_metadata).t = "obj"
HasCellList(doc) ==
    doc.t = "obj" /\ HasKey(doc, s_cells) /\ Get(doc, s_cells).t = "arr"
CellsOf(doc) == Get(doc, s_cells).v
WellFormed(doc) == HasCellList(doc) /\ \A n \in DOMAIN CellsOf(doc) : IsCell(CellsOf(doc)[n])
IsCodeCell(c) == c.t = "obj" /\ HasKey(c, s_cell_type) /\ Get(c, s_cell_type) = Str(s_code)

\* a file that was found holding a well-formed notebook, and that can be
\* read and written
Valid(p) ==
    files0[p].kind = "json" /\ WellFormed(files0[p].doc) /\ fault[p] = "none"
Malformed(p) == files0[p].kind # "json"

StatusLines == {n \in DOMAIN out : out[n].line \in {"Cleaned", "Error processing"}}
CleanedLines == {n \in DOMAIN out : out[n].line = "Cleaned"}
ErrorLineFor(p) ==
    \E n \in DOMAIN out : out[n].line = "Error processing" /\ out[n].path = p

\* ------------------------------------------------------------------------
\* C1. Failure isolation: whatever fails inside clean_notebook, main calls
\* clean_notebook exactly once for each discovered path, in the order of
\* the list, never skips a path that follows a failing one, and eventually
\* prints the final summary line; no failure of a path aborts the run.
\* ------------------------------------------------------------------------
C1_InOrder ==
    /\ pc \in {"main", "for_files", "done"} \/ InCall
    /\ pc # "main" =>
          /\ Len(calls) = (IF InCall THEN k ELSE k - 1)
          /\ Len(calls) <= Len(notebook_files)
          /\ calls = SubSeq(notebook_files, 1, Len(calls))
          /\ Len(rets) = k - 1
          /\ \A a, b \in DOMAIN notebook_files : a # b => notebook_files[a] # notebook_files[b]
    /\ pc = "done" =>
          /\ calls = notebook_files
          /\ Len(rets) = Len(notebook_files)
          /\ out[Len(out)].line = "Completed"
C1_FailureIsolation == []C1_InOrder /\ <>(pc = "done")

\* a run that is over, in which a call failed and a later call was made
C1_Witness ==
    /\ pc = "done"
    /\ \E a, b \in Returned : a < b /\ ~rets[a] /\ rets[b]
    /\ \E a, b \in Returned : a < b /\ ~rets[a] /\ ~rets[b]

\* ------------------------------------------------------------------------
\* C2. Count consistency: at the end of a run the count of the discovery
\* line, the number of per-file status lines (one per path, 'Cleaned' or
\* 'Error processing') and the total of the summary are equal; the
\* success count of the summary is the number of 'Cleaned' lines, which is
\* the number of calls that returned True, and is at most the total.
\* ------------------------------------------------------------------------
C2_CountConsistency ==
    pc = "done" =>
        LET summary == out[Len(out)] IN
        /\ out[1].line = "Found"
        /\ summary.line = "Completed"
        /\ out[1].n = Cardinality(StatusLines)
        /\ summary.total = Cardinality(StatusLines)
        /\ \A n \in DOMAIN notebook_files :
              Cardinality({m \in StatusLines : out[m].path = notebook_files[n]}) = 1
        /\ \A m \in StatusLines : \E n \in DOMAIN notebook_files : out[m].path = notebook_files[n]
        /\ summary.successes = Cardinality(CleanedLines)
        /\ summary.successes = Cardinality({n \in Returned : rets[n]})
        /\ summary.successes <= summary.total

\* a run that is over, with both kinds of status line
C2_Witness ==
    /\ pc = "done"
    /\ CleanedLines # {}
    /\ StatusLines \ CleanedLines # {}

\* ------------------------------------------------------------------------
\* C3. Malformed input: a discovered file that does not parse as JSON is
\* never written (its content stays what the run found), its call prints
\* an error line naming the path and returns False; a run over three
\* discovered files, one malformed and two valid, ends with 2/3.
\* ------------------------------------------------------------------------
C3_Malformed ==
    /\ \A p \in DOMAIN files : Malformed(p) => files[p] = files0[p]
    /\ \A n \in Returned :
          Malformed(calls[n]) => ~rets[n] /\ ErrorLineFor(calls[n])
    /\ ( /\ pc = "done"
         /\ Len(notebook_files) = 3
         /\ Cardinality({n \in DOMAIN notebook_files : Malformed(notebook_files[n])}) = 1
         /\ Cardinality({n \in DOMAIN notebook_files : Valid(notebook_files[n])}) = 2 )
       => out[Len(out)] = CompletedLine(2, 3)

\* a run over three files that is over, one malformed and two valid
C3_Witness ==
    /\ pc = "done"
    /\ Len(notebook_files) = 3
    /\ Cardinality({n \in DOMAIN notebook_files : Malformed(notebook_files[n])}) = 1
    /\ Cardinality({n \in DOMAIN notebook_files : Valid(notebook_files[n])}) = 2
    /\ ~rets[2]

\* ------------------------------------------------------------------------
\* Before and after: the document a returned call found in its file and
\* the one it left there
\* ------------------------------------------------------------------------
Found(n) == files0[calls[n]]
Persisted(n) == files[calls[n]]
Succeeded == {n \in Returned : rets[n]}
HasExecution(c) ==
    /\ HasKey(c, s_metadata)
    /\ Get(c, s_metadata).t = "obj"
    /\ HasKey(Get(c, s_metadata), s_execution)

\* ------------------------------------------------------------------------
\* C4. Completeness: after a successful clean_notebook every code cell of
\* the persisted document has outputs [] if it had outputs,
\* execution_count null if it had an execution_count, and
\* metadata.execution {} if its metadata had an execution key; the cell of
\* scenario A becomes outputs [], execution_count null, metadata
\* {"execution": {}}.
\* ------------------------------------------------------------------------
C4_Completeness ==
    \A n \in Succeeded :
        /\ Persisted(n).kind = "json"
        /\ LET before == CellsOf(Found(n).doc)
               after == CellsOf(Persisted(n).doc) IN
           /\ DOMAIN after = DOMAIN before
           /\ \A i \in DOMAIN after :
                 IsCodeCell(after[i]) =>
                    /\ HasKey(before[i], s_outputs) =>
                          HasKey(after[i], s_outputs) /\ Get(after[i], s_outputs) = EmptyList
                    /\ HasKey(before[i], s_execution_count) =>
                          /\ HasKey(after[i], s_execution_count)
                          /\ Get(after[i], s_execution_count) = None
                    /\ HasExecution(before[i]) =>
                          /\ HasExecution(after[i])
                          /\ Get(Get(after[i], s_metadata), s_execution) = EmptyDict
        /\ Found(n).doc = ScenarioADoc =>
              LET c == CellsOf(Persisted(n).doc)[1] IN
              /\ Len(CellsOf(Persisted(n).doc)) = 1
              /\ Get(c, s_outputs) = EmptyList
              /\ Get(c, s_execution_count) = None
              /\ Get(c, s_metadata) = Obj(<< <<s_execution, EmptyDict>> >>)

\* a successful call on two code cells that had the three fields
C4_Witness ==
    \E n \in Succeeded :
        LET before == CellsOf(Found(n).doc) IN
        /\ Len(before) = 2
        /\ \A i \in DOMAIN before :
              /\ IsCodeCell(before[i])
              /\ HasKey(before[i], s_outputs)
              /\ Get(before[i], s_outputs) # EmptyList
              /\ HasKey(before[i], s_execution_count)
              /\ HasExecution(before[i])

\* ------------------------------------------------------------------------
\* C5. Selectivity: a cell whose cell_type is not "code" is the same
\* before and after the transform, with whatever outputs, execution_count
\* or metadata.execution it carries; a document with no code cells is
\* persisted with the content it had and counted as a success.
\* ------------------------------------------------------------------------
NoCodeCells(doc) == \A i \in DOMAIN CellsOf(doc) : ~IsCodeCell(CellsOf(doc)[i])
C5_Selectivity ==
    /\ (loaded # Unbound /\ HasCellList(loaded)) =>
          \A i \in DOMAIN CellsOf(loaded) :
             ~IsCodeCell(CellsOf(loaded)[i]) => CellsOf(notebook)[i] = CellsOf(loaded)[i]
    /\ \A n \in Succeeded :
          HasCellList(Found(n).doc) =>
             \A i \in DOMAIN CellsOf(Found(n).doc) :
                ~IsCodeCell(CellsOf(Found(n).doc)[i]) =>
                   /\ i \in DOMAIN CellsOf(Persisted(n).doc)
                   /\ CellsOf(Persisted(n).doc)[i] = CellsOf(Found(n).doc)[i]
    /\ \A n \in Returned :
          (Valid(calls[n]) /\ NoCodeCells(Found(n).doc)) =>
             /\ rets[n]
             /\ Persisted(n).kind = "json"
             /\ Persisted(n).doc = Found(n).doc

\* a successful call on a document without code cells, one of whose cells
\* carries outputs, an execution_count and metadata.execution
C5_Witness ==
    \E n \in Succeeded :
        /\ Valid(calls[n])
        /\ NoCodeCells(Found(n).doc)
        /\ \E i \in DOMAIN CellsOf(Found(n).doc) :
              LET c == CellsOf(Found(n).doc)[i] IN
              /\ Get(c, s_cell_type) = Str(s_raw)
              /\ HasKey(c, s_outputs)
              /\ HasKey(c, s_execution_count)
              /\ HasExecution(c)

\* ------------------------------------------------------------------------
\* C6. Field preservation: the transform changes nothing but the values
\* of outputs, execution_count and metadata.execution of code cells: every
\* other field of a code cell (source, every other metadata key) is
\* unchanged, the number and order of the cells is unchanged, and so is
\* every field of the document outside cells.
\* ------------------------------------------------------------------------

\* two dicts with the same keys in the same order and, but for the keys
\* of `free`, the same values
SameExcept(a, b, free) ==
    /\ b.t = "obj"
    /\ Len(b.v) = Len(a.v)
    /\ \A n \in DOMAIN a.v :
          /\ b.v[n][1] = a.v[n][1]
          /\ a.v[n][1] \notin free => b.v[n][2] = a.v[n][2]
CellPreserved(a, b) ==
    IF ~IsCodeCell(a) THEN b = a
    ELSE /\ SameExcept(a, b, {s_outputs, s_execution_count, s_metadata})
         /\ HasKey(a, s_metadata) =>
               IF Get(a, s_metadata).t = "obj"
               THEN SameExcept(Get(a, s_metadata), Get(b, s_metadata), {s_execution})
               ELSE Get(b, s_metadata) = Get(a, s_metadata)
DocPreserved(a, b) ==
    IF ~HasCellList(a) THEN b = a
    ELSE /\ SameExcept(a, b, {s_cells})
         /\ Get(b, s_cells).t = "arr"
         /\ Len(CellsOf(b)) = Len(CellsOf(a))
         /\ \A i \in DOMAIN CellsOf(a) : CellPreserved(CellsOf(a)[i], CellsOf(b)[i])
C6_FieldPreservation ==
    /\ loaded # Unbound => DocPreserved(loaded, notebook)
    /\ \A n \in Succeeded :
          Persisted(n).kind = "json" /\ DocPreserved(Found(n).doc, Persisted(n).doc)

\* a successful call that changed a code cell whose metadata has another
\* key beside execution
C6_Witness ==
    \E n \in Succeeded :
        /\ Persisted(n).doc # Found(n).doc
        /\ \E i \in DOMAIN CellsOf(Found(n).doc) :
              LET c == CellsOf(Found(n).doc)[i] IN
              /\ IsCodeCell(c)
              /\ HasExecution(c)
              /\ HasKey(Get(c, s_metadata), s_tags)
              /\ CellsOf(Persisted(n).doc)[i] # c

\* ------------------------------------------------------------------------
\* C7. Idempotence: on a well-formed document the transform applied twice
\* gives the document the transform applied once gives; cleaning a cleaned
\* document changes no field.
\* ------------------------------------------------------------------------
C7_Idempotence ==
    (loaded # Unbound /\ WellFormed(loaded)) =>
        LET once == CleanDocument(loaded) IN
        /\ once.exc = "none"
        /\ CleanDocument(once.val) = once
        /\ pc = "cleaned" => notebook = once.val

\* the loop is over on a well-formed document that it changed, a cell of
\* which had two outputs
C7_Witness ==
    /\ pc = "cleaned"
    /\ WellFormed(loaded)
    /\ notebook # loaded
    /\ \E i \in DOMAIN CellsOf(loaded) :
          /\ IsCodeCell(CellsOf(loaded)[i])
          /\ HasKey(CellsOf(loaded)[i], s_outputs)
          /\ Len(Get(CellsOf(loaded)[i], s_outputs).v) = 2

\* ------------------------------------------------------------------------
\* C8. Additive safety: the transform adds no field and removes none: the
\* field names of every cell and the keys of its metadata are the same
\* after as before; a code cell without outputs, execution_count, metadata
\* or metadata.execution is still without it, and a metadata.execution
\* that was there is still there, with the empty mapping as its value.
\* ------------------------------------------------------------------------
Visited(i) == pc = "cleaned" \/ (pc = "for_cells" /\ i < ci)
C8_AdditiveSafety ==
    (loaded # Unbound /\ HasCellList(loaded)) =>
        \A i \in DOMAIN CellsOf(loaded) :
            LET a == CellsOf(loaded)[i]
                b == CellsOf(notebook)[i] IN
            a.t = "obj" =>
               /\ b.t = "obj"
               /\ Keys(b) = Keys(a)
               /\ \A f \in {s_outputs, s_execution_count, s_metadata} :
                     HasKey(b, f) <=> HasKey(a, f)
               /\ (HasKey(a, s_metadata) /\ Get(a, s_metadata).t = "obj") =>
                     /\ Get(b, s_metadata).t = "obj"
                     /\ Keys(Get(b, s_metadata)) = Keys(Get(a, s_metadata))
               /\ HasExecution(b) <=> HasExecution(a)
               /\ (Visited(i) /\ IsCodeCell(a) /\ HasExecution(a)) =>
                     Get(Get(b, s_metadata), s_execution) = EmptyDict

\* the loop is over on a code cell that has none of the fields and a code
\* cell that has metadata.execution
C8_Witness ==
    /\ pc = "cleaned"
    /\ HasCellList(loaded)
    /\ \E i, j \in DOMAIN CellsOf(loaded) :
          LET a == CellsOf(loaded)[i]
              b == CellsOf(loaded)[j] IN
          /\ IsCodeCell(a)
          /\ ~HasKey(a, s_outputs) /\ ~HasKey(a, s_execution_count) /\ ~HasKey(a, s_metadata)
          /\ IsCodeCell(b)
          /\ HasExecution(b)
          /\ Get(Get(b, s_metadata), s_execution) # EmptyDict

\* ------------------------------------------------------------------------
\* C9. Write footprint: in a whole run only discovered paths, whose names
\* end with '.ipynb', can change content; the processing of path p writes
\* only p, every other file (every other discovered notebook too) is
\* unchanged by it, and what happens to p does not depend on what happened
\* to the paths before it: two paths found with the same content and the
\* same faults end with the same result and the same content.
\* ------------------------------------------------------------------------
C9_Footprint ==
    /\ DOMAIN files = DOMAIN files0
    /\ \A q \in DOMAIN files :
          files[q] # files0[q] =>
             /\ EndsWith(q.file, s_ipynb)
             /\ \E n \in DOMAIN calls : calls[n] = q
    /\ \A a, b \in Returned :
          (Found(a) = Found(b) /\ fault[calls[a]] = fault[calls[b]]) =>
             rets[a] = rets[b] /\ Persisted(a) = Persisted(b)
C9_Step ==
    \A q \in DOMAIN files : files'[q] # files[q] => InCall /\ q = notebook_path
C9_WriteFootprint == []C9_Footprint /\ [][C9_Step]_vars

\* a run that is over: two notebooks were rewritten, a third was processed
\* and is as it was found, and so is every other file
C9_Witness ==
    /\ pc = "done"
    /\ Cardinality({q \in DOMAIN files : files[q] # files0[q]}) = 2
    /\ \E n \in Returned : Persisted(n) = Found(n)
    /\ \A q \in OtherFiles : files[q] = files0[q]

\* ------------------------------------------------------------------------
\* C10. No partially transformed document is persisted: the file is
\* opened for writing only when the loop has gone over every cell without
\* an exception; a document that parses but has no cells field, or a cell
\* without cell_type (whatever was changed in memory before that cell),
\* gets an error line and False, and its file stays as it was found.
\* ------------------------------------------------------------------------
NoCellsField(doc) == doc.t # "obj" \/ ~HasKey(doc, s_cells)
CellWithoutType(doc) ==
    /\ HasCellList(doc)
    /\ \E i \in DOMAIN CellsOf(doc) :
          CellsOf(doc)[i].t # "obj" \/ ~HasKey(CellsOf(doc)[i], s_cell_type)
LacksShape(p) ==
    /\ files0[p].kind = "json"
    /\ NoCellsField(files0[p].doc) \/ CellWithoutType(files0[p].doc)
C10_Unshaped ==
    /\ \A p \in DOMAIN files : LacksShape(p) => files[p] = files0[p]
    /\ \A n \in Returned : LacksShape(calls[n]) => ~rets[n] /\ ErrorLineFor(calls[n])
C10_Step ==
    files' # files =>
       /\ pc = "for_cells"
       /\ ci > Len(CellItems)
       /\ CleanDocument(loaded) = Ok(notebook)
       /\ files'[notebook_path] \in {JsonDump(notebook), PartialText}
C10_NoPartialPersist == []C10_Unshaped /\ [][C10_Step]_vars

\* an exception at a cell without cell_type, after a code cell was changed
\* in memory; no file has changed
C10_Witness ==
    /\ pc = "except"
    /\ loaded # Unbound
    /\ CellWithoutType(loaded)
    /\ notebook # loaded
    /\ files = files0

====
